---- MODULE Spec2Model ----
(***************************************************************************)
(* FaithConnect member backend (src/NodeApp.js): the sign-up, login and    *)
(* profile handlers over the members table, with the Joi validation        *)
(* schema, bcrypt password hashing, JWT issuance and the authenticateToken *)
(* gate.  Every await of a handler is a suspension point: a handler is one *)
(* action per stretch of code between two awaits, and the store executes   *)
(* a query at the instant the awaiting handler resumes with its result.    *)
(*                                                                         *)
(* Strings are tuples of one-character strings, so that lengths and        *)
(* patterns are computed; library texts are multi-character tokens.        *)
(***************************************************************************)
EXTENDS Integers, Sequences, FiniteSets, TLC

\* ------------------------------------------------------------------ bounds
\* Number of HTTP requests in one run (they may all be in flight together).
MaxReq == 2

\* ------------------------------------------------------------ plain values
\* JS undefined / SQL NULL.
Absent == <<"undefined">>

Range(s) == {s[i] : i \in 1..Len(s)}

Digits == {"0", "1", "2", "3", "4", "5", "6", "7", "8", "9"}

\* A string of n characters.
StrOfLen(n) == [i \in 1..n |-> "a"]

Ada == <<"A", "d", "a">>
Lovelace == <<"L", "o", "v", "e">>
EmailNew == <<"n", "@", "x", ".", "i", "o">>
EmailOld == <<"o", "@", "x", ".", "i", "o">>
EmailOff == <<"f", "@", "x", ".", "i", "o">>
Pw1 == <<"p", "a", "s", "s", "w", "o", "r", "d">>
Pw2 == <<"l", "e", "t", "m", "e", "i", "n", "1">>
PwShort == <<"p", "w">>
Phone1 == <<"+", "1", "5", "5", "5">>
Dob1 == <<"1", "9", "9", "0", "-", "0", "1", "-", "1", "5">>
Elder == <<"e", "l", "d", "e", "r">>
Male == <<"m", "a", "l", "e">>
Female == <<"f", "e", "m", "a", "l", "e">>
Other == <<"o", "t", "h", "e", "r">>
DefaultRole == <<"m", "e", "m", "b", "e", "r">>
CurrentTimestamp == <<"CURRENT_TIMESTAMP">>

\* --------------------------------------------------- validation (Joi schema)
NameMin == 2
NameMax == 100
PasswordMin == 8
AddressMax == 500
RoleMax == 50
PhoneMoreDigits == 15

\* Joi.string().email(): one "@", a local part, a domain of at least two
\* non-empty segments.
IsEmail(s) ==
    LET ats == {i \in 1..Len(s) : s[i] = "@"} IN
    /\ Cardinality(ats) = 1
    /\ LET at == CHOOSE i \in ats : TRUE
           dots == {i \in (at+1)..Len(s) : s[i] = "."} IN
       /\ at > 1
       /\ dots # {}
       /\ \A i \in dots : /\ i > at + 1
                          /\ i < Len(s)
                          /\ (i + 1) \notin dots

\* /^[\+]?[1-9][\d]{0,15}$/
IsPhone(s) ==
    LET d == IF Len(s) > 0 /\ s[1] = "+" THEN Tail(s) ELSE s IN
    /\ Len(d) >= 1
    /\ Len(d) <= 1 + PhoneMoreDigits
    /\ d[1] \in Digits \ {"0"}
    /\ \A i \in 2..Len(d) : d[i] \in Digits

\* Joi.date() on a string: the inputs of the model are ISO dates
\* (YYYY-MM-DD) or text that no date parser accepts.
IsDate(s) ==
    /\ Len(s) = 10
    /\ s[5] = "-"
    /\ s[8] = "-"
    /\ \A i \in {1, 2, 3, 4, 6, 7, 9, 10} : s[i] \in Digits

Msg(field, text) == <<field, text>>

\* Joi.string().min(lo).max(hi).required()
RequiredString(body, field, lo, hi) ==
    LET v == body[field] IN
    IF v = Absent THEN <<Msg(field, "is required")>>
    ELSE IF Len(v) = 0 THEN <<Msg(field, "is not allowed to be empty")>>
    ELSE IF Len(v) < lo THEN <<Msg(field, "length must be at least min characters long")>>
    ELSE IF hi > 0 /\ Len(v) > hi
         THEN <<Msg(field, "length must be less than or equal to max characters long")>>
    ELSE <<>>

\* Joi.string().max(hi).optional()
OptionalString(body, field, hi) ==
    LET v == body[field] IN
    IF v = Absent THEN <<>>
    ELSE IF Len(v) = 0 THEN <<Msg(field, "is not allowed to be empty")>>
    ELSE IF Len(v) > hi
         THEN <<Msg(field, "length must be less than or equal to max characters long")>>
    ELSE <<>>

EmailRule(body) ==
    LET v == body.email IN
    IF v = Absent THEN <<Msg("email", "is required")>>
    ELSE IF Len(v) = 0 THEN <<Msg("email", "is not allowed to be empty")>>
    ELSE IF ~IsEmail(v) THEN <<Msg("email", "must be a valid email")>>
    ELSE <<>>

PhoneRule(body) ==
    LET v == body.phone IN
    IF v = Absent THEN <<>>
    ELSE IF Len(v) = 0 THEN <<Msg("phone", "is not allowed to be empty")>>
    ELSE IF ~IsPhone(v)
         THEN <<Msg("phone", "Phone number must be valid international format")>>
    ELSE <<>>

DateRule(body) ==
    LET v == body.dateOfBirth IN
    IF v = Absent \/ IsDate(v) THEN <<>>
    ELSE <<Msg("dateOfBirth", "must be a valid date")>>

GenderRule(body) ==
    LET v == body.gender IN
    IF v = Absent \/ v \in {Male, Female, Other} THEN <<>>
    ELSE <<Msg("gender", "must be one of [male, female, other]")>>

\* Every violated rule of the schema, in the order of the schema's keys
\* (at most one message per key).
Violations(body) ==
    RequiredString(body, "firstName", NameMin, NameMax)
    \o RequiredString(body, "lastName", NameMin, NameMax)
    \o EmailRule(body)
    \o PhoneRule(body)
    \o RequiredString(body, "password", PasswordMin, 0)
    \o DateRule(body)
    \o GenderRule(body)
    \o OptionalString(body, "address", AddressMax)
    \o OptionalString(body, "churchRole", RoleMax)

\* Joi's abortEarly option; validate(req.body) passes no options, so the
\* library default applies.
AbortEarly == TRUE

\* memberSignupSchema.validate(req.body): error.details
Validate(body) ==
    LET all == Violations(body) IN
    IF AbortEarly /\ Len(all) > 1 THEN <<Head(all)>> ELSE all

\* ------------------------------------------------------------ credentials
\* bcrypt.hash(password, saltRounds) draws a fresh random salt: no two
\* calls get the same one.  The call made for request r gets GenSalt(r).
\* SeedSalt is the salt of the rows the store starts with.
GenSalt(r) == ToString(r)
SeedSalt == "seed"

\* The one-way digest: injective, and a different string from its input.
Digest(password) == [i \in 1..Len(password) |-> password[Len(password) + 1 - i]]

\* The bcrypt string "$2a$12$<salt><digest>" (saltRounds = 12).
BcryptHash(password, salt) == <<"$2a$12$", salt>> \o Digest(password)

\* bcrypt.compare(password, hash): re-derive with the salt of the hash.
BcryptCompare_plain(password, hash) == hash = password
BcryptCompare(password, hash) == hash = BcryptHash(password, hash[2])

\* process.env.JWT_SECRET || 'your-secret-key'
SecretKey == "JWT_SECRET"
ExpiresInHours == 24

\* jwt.sign({id, email, role}, key, {expiresIn: '24h'})
JwtSign(row) ==
    [payload |-> [id |-> row.id, email |-> row.email, role |-> row.church_role],
     key |-> SecretKey]

JwtVerifyOk_noExpiry(token, ageHours) == token.key = SecretKey

\* jwt.verify(token, key, cb): err is set when the signature is not the
\* server's or when the token is ageHours old and has expired.
JwtVerifyOk(token, ageHours) == token.key = SecretKey /\ ageHours < ExpiresInHours

\* ------------------------------------------------------------------- store
Columns ==
    {"id", "first_name", "last_name", "email", "phone", "password_hash",
     "date_of_birth", "gender", "address", "church_role", "join_date",
     "is_active", "email_verified", "created_at", "updated_at"}

\* x || dflt for a value that is a string or undefined ("" is falsy too).
OrElse(v, dflt) == IF v = Absent \/ Len(v) = 0 THEN dflt ELSE v

\* The row the INSERT of sign-up stores: its nine parameters and the
\* defaults of the table's other columns.
NewRow(id, value, passwordHash) ==
    [id |-> id,
     first_name |-> value.firstName,
     last_name |-> value.lastName,
     email |-> value.email,
     phone |-> OrElse(value.phone, Absent),
     password_hash |-> passwordHash,
     date_of_birth |-> OrElse(value.dateOfBirth, Absent),
     gender |-> OrElse(value.gender, Absent),
     address |-> OrElse(value.address, Absent),
     church_role |-> OrElse(value.churchRole, DefaultRole),
     join_date |-> CurrentTimestamp,
     is_active |-> TRUE,
     email_verified |-> FALSE,
     created_at |-> CurrentTimestamp,
     updated_at |-> CurrentTimestamp]

\* Some row of the table has the email.
EmailHeld(tbl, email) == \E i \in 1..Len(tbl) : tbl[i].email = email

\* SELECT ... FROM members WHERE email = $1
SelectByEmail_wrongColumn(tbl, email) == SelectSeq(tbl, LAMBDA row : row.first_name = email)
SelectByEmail(tbl, email) == SelectSeq(tbl, LAMBDA row : row.email = email)

\* SELECT ... FROM members WHERE id = $1
SelectById(tbl, id) == SelectSeq(tbl, LAMBDA row : row.id = id)

\* The columns a SELECT or a RETURNING clause lists.
Project(row, cols) == [c \in cols |-> row[c]]

SignupReturning_all == Columns
SignupReturning == {"id", "first_name", "last_name", "email", "church_role", "join_date"}
ProfileColumns ==
    {"id", "first_name", "last_name", "email", "phone", "date_of_birth",
     "gender", "address", "church_role", "join_date"}

\* email VARCHAR(255) UNIQUE
UniqueViolation_never(tbl, email) == FALSE
UniqueViolation(tbl, email) == \E i \in 1..Len(tbl) : tbl[i].email = email

UniqueViolationText == <<"duplicate key value violates unique constraint members_email_key">>
ConnectionErrorText == <<"Connection terminated unexpectedly">>

\* INSERT ... ON CONFLICT (email) DO UPDATE
StoreInsert_upsert(tbl, row) ==
    IF UniqueViolation(tbl, row.email)
    THEN [ok |-> TRUE,
          table |-> [i \in 1..Len(tbl) |-> IF tbl[i].email = row.email THEN row ELSE tbl[i]]]
    ELSE [ok |-> TRUE, table |-> Append(tbl, row)]

\* The INSERT as the store executes it: rejected when the email is taken,
\* else the row is appended.
StoreInsert(tbl, row) ==
    IF UniqueViolation(tbl, row.email)
    THEN [ok |-> FALSE, table |-> tbl]
    ELSE [ok |-> TRUE, table |-> Append(tbl, row)]

\* Rows of a store that has been in use: an active member and a member an
\* administrator has deactivated (is_active = false).
SeedBody(email) ==
    [firstName |-> Ada, lastName |-> Lovelace, email |-> email, phone |-> Absent,
     password |-> Pw1, dateOfBirth |-> Absent, gender |-> Absent,
     address |-> Absent, churchRole |-> Absent]

SeedTable ==
    <<NewRow(1, SeedBody(EmailOld), BcryptHash(Pw1, SeedSalt)),
      [NewRow(2, SeedBody(EmailOff), BcryptHash(Pw1, SeedSalt)) EXCEPT !.is_active = FALSE]>>

InitTables == {<<>>, SeedTable}

\* --------------------------------------------------------------- responses
NoRes == [status |-> 0, body |-> [success |-> FALSE]]
Res(status, body) == [status |-> status, body |-> body]

ValidationError(errs) ==
    Res(400, [success |-> FALSE, message |-> <<"Validation error">>,
              errors |-> [i \in 1..Len(errs) |-> errs[i]]])
EmailRegistered ==
    Res(409, [success |-> FALSE, message |-> <<"Email already registered">>])
Registered(member, token) ==
    Res(201, [success |-> TRUE, message |-> <<"Member registered successfully">>,
              data |-> [member |-> member, token |-> token]])
\* The catch block of sign-up: error.message goes into the body.
SignupServerError(errorMessage) ==
    Res(500, [success |-> FALSE, message |-> <<"Internal server error">>,
              error |-> errorMessage])
ServerError ==
    Res(500, [success |-> FALSE, message |-> <<"Internal server error">>])
FieldsRequired ==
    Res(400, [success |-> FALSE, message |-> <<"Email and password are required">>])
\* Login: no row has the email.
UnknownEmail ==
    Res(401, [success |-> FALSE, message |-> <<"Invalid credentials">>])
\* Login: bcrypt.compare said no.
WrongPassword_distinct ==
    Res(401, [success |-> FALSE, message |-> <<"Incorrect password">>])
WrongPassword ==
    Res(401, [success |-> FALSE, message |-> <<"Invalid credentials">>])
Deactivated ==
    Res(401, [success |-> FALSE, message |-> <<"Account is deactivated">>])
LoggedIn(memberData, token) ==
    Res(200, [success |-> TRUE, message |-> <<"Login successful">>,
              data |-> [member |-> [id |-> memberData.id,
                                    firstName |-> memberData.first_name,
                                    lastName |-> memberData.last_name,
                                    email |-> memberData.email,
                                    churchRole |-> memberData.church_role],
                        token |-> token]])
TokenRequired ==
    Res(401, [success |-> FALSE, message |-> <<"Access token required">>])
TokenInvalid ==
    Res(403, [success |-> FALSE, message |-> <<"Invalid or expired token">>])
NotFound ==
    Res(404, [success |-> FALSE, message |-> <<"Member not found">>])
Profile(row) == Res(200, [success |-> TRUE, data |-> row])

\* ------------------------------------------------------------------ inputs
Body(email, password) ==
    [firstName |-> Ada, lastName |-> Lovelace, email |-> email, phone |-> Absent,
     password |-> password, dateOfBirth |-> Absent, gender |-> Absent,
     address |-> Absent, churchRole |-> Absent]

FullBody ==
    [firstName |-> Ada, lastName |-> Lovelace, email |-> EmailNew, phone |-> Phone1,
     password |-> Pw2, dateOfBirth |-> Dob1, gender |-> Female,
     address |-> StrOfLen(AddressMax), churchRole |-> Elder]

\* Bodies the schema accepts.
ValidBodies == {Body(EmailNew, Pw1), Body(EmailOld, Pw1), FullBody}

\* Bodies that break one rule, or several rules on distinct fields.
InvalidBodies ==
    {[Body(EmailOld, Pw1) EXCEPT !.firstName = <<"A">>],
     [Body(EmailNew, Pw1) EXCEPT !.lastName = StrOfLen(NameMax + 1)],
     [Body(EmailNew, PwShort) EXCEPT !.firstName = Absent],
     [Body(<<"n", "@", "x">>, Pw1) EXCEPT !.phone = <<"0", "1">>,
                                          !.gender = <<"x">>,
                                          !.dateOfBirth = <<"s", "o", "o", "n">>],
     [Body(EmailOld, Pw1) EXCEPT !.churchRole = StrOfLen(RoleMax + 1),
                                 !.address = StrOfLen(AddressMax + 1)]}

SignupBodies == ValidBodies \cup InvalidBodies

LoginBodies ==
    {[email |-> e, password |-> p] : e \in {EmailNew, EmailOld}, p \in {Pw1, Pw2}}
    \cup {[email |-> EmailOff, password |-> Pw2],
          [email |-> Absent, password |-> Pw1],
          [email |-> EmailOld, password |-> <<>>]}

\* A token some other key signed, and a token of the server's key whose
\* identifier resolves to no row (SERIAL identifiers start at 1).
GarbageToken ==
    [payload |-> [id |-> 1, email |-> EmailOld, role |-> DefaultRole], key |-> "other"]
StaleToken ==
    [payload |-> [id |-> 0, email |-> EmailOld, role |-> DefaultRole], key |-> SecretKey]

\* The authorization header, split at spaces: the scheme and what follows.
NoHeader == [scheme |-> "", rest |-> <<>>]
Header(scheme, rest) == [scheme |-> scheme, rest |-> rest]

\* Hours between the issue of a token and the request that presents it.
Ages == {1, ExpiresInHours}

\* ------------------------------------------------------------------- state
VARIABLES
    members,   \* the members table, in insertion order
    nextId,    \* the SERIAL sequence behind members.id
    req,       \* req[r]: the request of slot r (kind and input)
    pc,        \* pc[r]: the await at which the handler of r is suspended
    loc,       \* loc[r]: the handler's local variables
    res        \* res[r]: the response sent, NoRes before it is sent

vars == <<members, nextId, req, pc, loc, res>>

ReqIds == 1..MaxReq

NoReq == [kind |-> "none"]

NoLoc ==
    [held |-> FALSE,         \* history: the email was in the store on arrival
     sql |-> <<>>,           \* the queries the handler has sent to the pool
     rows |-> <<>>,          \* member.rows of login
     passwordHash |-> Absent,
     user |-> [id |-> 0, email |-> Absent, role |-> Absent],   \* req.user
     caught |-> Absent]      \* error.message in the catch block

Init ==
    /\ members \in InitTables
    /\ nextId = Len(members) + 1
    /\ req = [r \in ReqIds |-> NoReq]
    /\ pc = [r \in ReqIds |-> "idle"]
    /\ loc = [r \in ReqIds |-> NoLoc]
    /\ res = [r \in ReqIds |-> NoRes]

\* Requests are numbered in the order of their arrival.
CanArrive(r) == pc[r] = "idle" /\ (IF r = 1 THEN TRUE ELSE pc[r - 1] # "idle")

Query(stmt, param) == [stmt |-> stmt, param |-> param]

Respond(r, response) ==
    /\ res' = [res EXCEPT ![r] = response]
    /\ pc' = [pc EXCEPT ![r] = "done"]

\* ----------------------------------------------------- POST /members/signup
\* Up to the first await: validation, then the existence query is sent.
SignupStart(r, body) ==
    /\ CanArrive(r)
    /\ req' = [req EXCEPT ![r] = [kind |-> "signup", body |-> body]]
    /\ LET errs == Validate(body) IN
       IF Len(errs) > 0
       THEN /\ Respond(r, ValidationError(errs))
            /\ loc' = [loc EXCEPT ![r].held = EmailHeld(members, body.email)]
       ELSE /\ pc' = [pc EXCEPT ![r] = "exists"]
            /\ loc' = [loc EXCEPT ![r].held = EmailHeld(members, body.email),
                                  ![r].sql = <<Query("SELECT id BY email", <<body.email>>)>>]
            /\ UNCHANGED res
    /\ UNCHANGED <<members, nextId>>

\* The existence query returns; on no row the hashing starts.
SignupExists(r) ==
    /\ pc[r] = "exists"
    /\ LET existingMember == SelectByEmail(members, req[r].body.email) IN
       IF Len(existingMember) > 0
       THEN Respond(r, EmailRegistered)
       ELSE pc' = [pc EXCEPT ![r] = "hash"] /\ UNCHANGED res
    /\ UNCHANGED <<members, nextId, req, loc>>

\* A store query throws: the catch block of sign-up answers.
SignupQueryFails(r) ==
    /\ pc[r] \in {"exists", "insert"}
    /\ loc' = [loc EXCEPT ![r].caught = ConnectionErrorText]
    /\ Respond(r, SignupServerError(ConnectionErrorText))
    /\ UNCHANGED <<members, nextId, req>>

\* bcrypt.hash resolves; the INSERT is sent.
SignupHash(r) ==
    /\ pc[r] = "hash"
    /\ loc' = [loc EXCEPT
                 ![r].passwordHash = BcryptHash(req[r].body.password, GenSalt(r)),
                 ![r].sql = Append(@, Query("INSERT", <<req[r].body.email>>))]
    /\ pc' = [pc EXCEPT ![r] = "insert"]
    /\ UNCHANGED <<members, nextId, req, res>>

\* The INSERT executes.  The sequence advances whether or not the row is
\* accepted.  Accepted: the token is signed and 201 is sent.  Rejected by
\* the unique constraint: the store's error reaches the catch block.
SignupInsert(r) ==
    /\ pc[r] = "insert"
    /\ LET row == NewRow(nextId, req[r].body, loc[r].passwordHash)
           result == StoreInsert(members, row)
       IN  /\ members' = result.table
           /\ nextId' = nextId + 1
           /\ IF result.ok
              THEN /\ Respond(r, Registered(Project(row, SignupReturning), JwtSign(row)))
                   /\ UNCHANGED loc
              ELSE /\ loc' = [loc EXCEPT ![r].caught = UniqueViolationText]
                   /\ Respond(r, SignupServerError(UniqueViolationText))
    /\ UNCHANGED req

\* ------------------------------------------------------ POST /members/login
LoginStart(r, body) ==
    /\ CanArrive(r)
    /\ req' = [req EXCEPT ![r] = [kind |-> "login", body |-> body]]
    /\ IF body.email = Absent \/ Len(body.email) = 0
          \/ body.password = Absent \/ Len(body.password) = 0
       THEN /\ Respond(r, FieldsRequired)
            /\ UNCHANGED loc
       ELSE /\ pc' = [pc EXCEPT ![r] = "lookup"]
            /\ loc' = [loc EXCEPT ![r].sql = <<Query("SELECT member BY email", <<body.email>>)>>]
            /\ UNCHANGED res
    /\ UNCHANGED <<members, nextId>>

\* The lookup returns: unknown email, deactivated account, or on to the
\* password comparison.
LoginLookup(r) ==
    /\ pc[r] = "lookup"
    /\ LET member == SelectByEmail(members, req[r].body.email) IN
       /\ loc' = [loc EXCEPT ![r].rows = member]
       /\ IF Len(member) = 0
          THEN Respond(r, UnknownEmail)
          ELSE IF ~member[1].is_active
          THEN Respond(r, Deactivated)
          ELSE pc' = [pc EXCEPT ![r] = "compare"] /\ UNCHANGED res
    /\ UNCHANGED <<members, nextId, req>>

LoginQueryFails(r) ==
    /\ pc[r] = "lookup"
    /\ loc' = [loc EXCEPT ![r].caught = ConnectionErrorText]
    /\ Respond(r, ServerError)
    /\ UNCHANGED <<members, nextId, req>>

\* bcrypt.compare resolves.
LoginCompare(r) ==
    /\ pc[r] = "compare"
    /\ LET memberData == loc[r].rows[1]
           isPasswordValid == BcryptCompare(req[r].body.password, memberData.password_hash)
       IN  IF ~isPasswordValid
           THEN Respond(r, WrongPassword)
           ELSE Respond(r, LoggedIn(memberData, JwtSign(memberData)))
    /\ UNCHANGED <<members, nextId, req, loc>>

\* ----------------------------------------------------- GET /members/profile
\* Tokens a client can hold: those the server has sent, and forged ones.
IssuedTokens == {res[q].body.data.token : q \in {q \in ReqIds : res[q].status \in {200, 201}
                                                     /\ req[q].kind \in {"signup", "login"}}}

Headers ==
    {NoHeader, Header("Bearer", <<>>), Header("Basic", <<GarbageToken>>)}
    \cup {Header("Bearer", <<t>>) : t \in IssuedTokens \cup {GarbageToken, StaleToken}}

\* authenticateToken, and when it calls next() the handler up to its await.
ProfileStart(r, header, ageHours) ==
    /\ CanArrive(r)
    /\ req' = [req EXCEPT ![r] = [kind |-> "profile", header |-> header, age |-> ageHours]]
    /\ IF header = NoHeader \/ Len(header.rest) = 0
       THEN /\ Respond(r, TokenRequired)
            /\ UNCHANGED loc
       ELSE LET token == header.rest[1] IN
            IF ~JwtVerifyOk(token, ageHours)
            THEN /\ Respond(r, TokenInvalid)
                 /\ UNCHANGED loc
            ELSE /\ pc' = [pc EXCEPT ![r] = "query"]
                 /\ loc' = [loc EXCEPT
                              ![r].user = token.payload,
                              ![r].sql = <<Query("SELECT profile BY id", <<token.payload.id>>)>>]
                 /\ UNCHANGED res
    /\ UNCHANGED <<members, nextId>>

ProfileQuery(r) ==
    /\ pc[r] = "query"
    /\ LET member == SelectById(members, loc[r].user.id) IN
       IF Len(member) = 0
       THEN Respond(r, NotFound)
       ELSE Respond(r, Profile(Project(member[1], ProfileColumns)))
    /\ UNCHANGED <<members, nextId, req, loc>>

ProfileQueryFails(r) ==
    /\ pc[r] = "query"
    /\ loc' = [loc EXCEPT ![r].caught = ConnectionErrorText]
    /\ Respond(r, ServerError)
    /\ UNCHANGED <<members, nextId, req>>

\* ----------------------------------------------------------- specification
Next ==
    \E r \in ReqIds :
        \/ \E body \in SignupBodies : SignupStart(r, body)
        \/ SignupExists(r)
        \/ SignupQueryFails(r)
        \/ SignupHash(r)
        \/ SignupInsert(r)
        \/ \E body \in LoginBodies : LoginStart(r, body)
        \/ LoginLookup(r)
        \/ LoginQueryFails(r)
        \/ LoginCompare(r)
        \/ \E header \in Headers, ageHours \in Ages : ProfileStart(r, header, ageHours)
        \/ ProfileQuery(r)
        \/ ProfileQueryFails(r)

Spec == Init /\ [][Next]_vars

\* ------------------------------------------------------------- properties
IsSignup(r) == req[r].kind = "signup"
IsLogin(r) == req[r].kind = "login"
IsProfile(r) == req[r].kind = "profile"
Done(r) == pc[r] = "done"
SentInsert(r) == Len(loc[r].sql) = 2

\* C1: under any interleaving of sign-up requests, no two rows of the
\* members table have the same email.
C1_EmailUnique ==
    \A i, j \in 1..Len(members) :
        i # j => members[i].email # members[j].email

\* Two sign-ups of one email have both passed the existence check and
\* both had their INSERT executed.
C1_Witness ==
    \E r, q \in ReqIds :
        /\ r # q
        /\ IsSignup(r) /\ IsSignup(q)
        /\ req[r].body.email = req[q].body.email
        /\ SentInsert(r) /\ SentInsert(q)
        /\ res[r].status = 201
        /\ Done(q) /\ loc[q].caught = UniqueViolationText

\* C2: a sign-up whose INSERT the unique constraint rejected gets the
\* response of the existence check: 409, 'Email already registered'.
C2_RaceLoserGetsConflict ==
    \A r \in ReqIds :
        (IsSignup(r) /\ Done(r) /\ loc[r].caught = UniqueViolationText)
            => res[r] = EmailRegistered

\* C3 as stated: a sign-up whose email a member already held when it
\* arrived is answered 409, whatever its other fields.
C3_HeldEmailAlways409 ==
    \A r \in ReqIds :
        (IsSignup(r) /\ Done(r) /\ loc[r].held) => res[r].status = 409

\* C3 amended: such a sign-up is answered 400 when its payload breaks the
\* schema; otherwise it never gets past the existence check, and it is
\* answered 409 unless the existence query itself failed (500).
C3_HeldEmailConflict ==
    \A r \in ReqIds :
        (IsSignup(r) /\ loc[r].held) =>
            IF Len(Violations(req[r].body)) > 0
            THEN Done(r) /\ res[r].status = 400
            ELSE /\ pc[r] \in {"exists", "done"}
                 /\ Done(r) =>
                      \/ res[r] = EmailRegistered
                      \/ /\ res[r].status = 500
                         /\ loc[r].caught = ConnectionErrorText
                         /\ ~SentInsert(r)

\* Sign-ups of a held email: one valid and answered 409, one valid in all
\* but another field and answered 400.
C3_Witness ==
    \E r, q \in ReqIds :
        /\ IsSignup(r) /\ loc[r].held /\ res[r] = EmailRegistered
        /\ IsSignup(q) /\ loc[q].held /\ res[q].status = 400
        /\ req[q].body.email = req[r].body.email

SameCredentials(r, q) ==
    /\ req[q].body.email = req[r].body.email
    /\ req[q].body.password = req[r].body.password

\* A 201 of sign-up carries the member and a token of that member.
IsRegistered(r) ==
    /\ res[r].status = 201
    /\ res[r].body.data.member.email = req[r].body.email
    /\ res[r].body.data.token.key = SecretKey
    /\ res[r].body.data.token.payload.id = res[r].body.data.member.id

\* Outcomes of a valid sign-up of an email that was free on arrival.
FreshSignupOutcome(r) ==
    \/ IsRegistered(r)
    \/ res[r].status = 500 /\ loc[r].caught = ConnectionErrorText
    \/ /\ res[r] = EmailRegistered \/ (res[r].status = 500 /\ loc[r].caught = UniqueViolationText)
       /\ \E q \in ReqIds \ {r} :
            IsSignup(q) /\ res[q].status = 201 /\ req[q].body.email = req[r].body.email

\* A login q is answered in this step, after sign-up r was answered 201
\* for the same email and password.
LoginAnsweredAfter(r, q) ==
    /\ IsSignup(r) /\ res[r].status = 201
    /\ IsLogin(q) /\ res[q] = NoRes /\ res'[q] # NoRes
    /\ SameCredentials(r, q)

LoginOfUnknownEmail(q) ==
    /\ IsLogin(q) /\ Done(q) /\ Len(loc[q].sql) = 1
    /\ loc[q].caught = Absent
    /\ Len(loc[q].rows) = 0

LoginWithWrongPassword(q) ==
    /\ IsLogin(q) /\ Done(q)
    /\ Len(loc[q].rows) > 0
    /\ loc[q].rows[1].password_hash
         # BcryptHash(req[q].body.password, loc[q].rows[1].password_hash[2])

\* C5 as stated: for every member record, a login with its email and a
\* wrong password and a login with an unknown email get identical
\* responses, of status 401.
C5_IndistinguishableForEveryMember ==
    \A q1, q2 \in ReqIds :
        (LoginWithWrongPassword(q1) /\ LoginOfUnknownEmail(q2))
            => res[q1] = res[q2] /\ res[q1].status = 401

\* C5 amended: the same for every member record that is active
\* (is_active = true); a deactivated member's email is answered
\* 'Account is deactivated'.
C5_IndistinguishableForActiveMember ==
    \A q1, q2 \in ReqIds :
        (/\ LoginWithWrongPassword(q1) /\ loc[q1].rows[1].is_active
         /\ LoginOfUnknownEmail(q2))
            => res[q1] = res[q2] /\ res[q1].status = 401

C5_Witness ==
    \E q1, q2 \in ReqIds :
        /\ LoginWithWrongPassword(q1) /\ loc[q1].rows[1].is_active
        /\ LoginOfUnknownEmail(q2)
        /\ res[q1].status = 401

\* Every string a response carries.
MemberStrings(m) == {m[f] : f \in DOMAIN m \ {"id", "is_active", "email_verified"}}
TokenStrings(t) == {t.payload.email, t.payload.role}
DataStrings(d) ==
    IF "token" \in DOMAIN d
    THEN MemberStrings(d.member) \cup TokenStrings(d.token)
    ELSE MemberStrings(d)
ResponseStrings(response) ==
    LET b == response.body IN
    (IF "message" \in DOMAIN b THEN {b.message} ELSE {})
    \cup (IF "error" \in DOMAIN b THEN {b.error} ELSE {})
    \cup (IF "errors" \in DOMAIN b THEN Range(b.errors) ELSE {})
    \cup (IF "data" \in DOMAIN b THEN DataStrings(b.data) ELSE {})

\* The passwords submitted so far and the hashes made or stored.
Plaintexts ==
    {req[r].body.password : r \in {r \in ReqIds : IsSignup(r) \/ IsLogin(r)}} \ {Absent, <<>>}
Hashes ==
    {members[i].password_hash : i \in 1..Len(members)}
    \cup ({loc[r].passwordHash : r \in ReqIds} \ {Absent})

\* C6: no response carries a password hash or a plaintext password, and
\* no stored password_hash is a submitted plaintext.
C6_NoSecretLeaves ==
    /\ \A r \in ReqIds : ResponseStrings(res[r]) \cap (Plaintexts \cup Hashes) = {}
    /\ \A i \in 1..Len(members) : members[i].password_hash \notin Plaintexts

\* A sign-up was answered 201 and a profile request 200.
C6_Witness ==
    \E r, q \in ReqIds :
        /\ IsSignup(r) /\ res[r].status = 201
        /\ members[Len(members)].password_hash = loc[r].passwordHash
        /\ IsProfile(q) /\ res[q].status = 200

\* The bearer token of profile request r, and whether it is one the
\* server signed less than 24 hours before.
HasToken(r) == Len(req[r].header.rest) > 0
Verified(r) ==
    /\ HasToken(r)
    /\ req[r].header.rest[1].key = SecretKey
    /\ req[r].age < ExpiresInHours

\* C7: a profile request reaches the handler and the store only with a
\* verified token, and is then looked up by that token's identifier;
\* without a token it is answered 401, with an invalid or expired one 403.
C7_GateBeforeStore ==
    \A r \in ReqIds :
        IsProfile(r) =>
            /\ (pc[r] = "query" \/ Len(loc[r].sql) > 0) =>
                 /\ Verified(r)
                 /\ loc[r].user = req[r].header.rest[1].payload
                 /\ loc[r].sql = <<Query("SELECT profile BY id",
                                         <<req[r].header.rest[1].payload.id>>)>>
            /\ ~HasToken(r) =>
                 Done(r) /\ res[r].status = 401 /\ Len(loc[r].sql) = 0
            /\ (HasToken(r) /\ ~Verified(r)) =>
                 Done(r) /\ res[r].status = 403 /\ Len(loc[r].sql) = 0

\* One profile request was let through to the store with a verified token
\* and another was stopped for an expired token of the server's key.
C7_Witness ==
    \E r, q \in ReqIds :
        /\ IsProfile(r) /\ Verified(r) /\ Done(r) /\ Len(loc[r].sql) = 1
        /\ IsProfile(q) /\ HasToken(q) /\ res[q].status = 403
        /\ req[q].header.rest[1].key = SecretKey

\* C8: the 400 of a payload that breaks several rules lists one message
\* for every rule broken.
C8_AllViolationsReported ==
    \A r \in ReqIds :
        (IsSignup(r) /\ Done(r) /\ Len(Violations(req[r].body)) > 1) =>
            /\ res[r].status = 400
            /\ Len(res[r].body.errors) = Len(Violations(req[r].body))

\* C9: a 500 carries the generic message and nothing else: no field holds
\* the text of the error that was caught.
C9_GenericServerError ==
    \A r \in ReqIds :
        res[r].status = 500 =>
            /\ res[r] = ServerError
            /\ loc[r].caught \notin ResponseStrings(res[r])

\* C10: the table changes only in the step that answers a sign-up 201, by
\* one appended row; every other response leaves the table as it was, and
\* no row is ever removed or altered.
C10_OnlyCreatedSignupWrites ==
    [][/\ members' # members =>
            /\ \E r \in ReqIds :
                 IsSignup(r) /\ res[r] = NoRes /\ res'[r].status = 201
            /\ Len(members') = Len(members) + 1
       /\ SubSeq(members', 1, Len(members)) = members
       /\ \A r \in ReqIds :
            (res[r] = NoRes /\ res'[r] # NoRes) =>
                IF req'[r].kind = "signup" /\ res'[r].status = 201
                THEN Len(members') = Len(members) + 1
                ELSE members' = members
      ]_vars

\* A sign-up has added a row and another sign-up of the same email was
\* turned away.
C10_Witness ==
    \E r, q \in ReqIds :
        /\ IsSignup(r) /\ res[r].status = 201
        /\ members[Len(members)].email = req[r].body.email
        /\ IsSignup(q) /\ res[q].status \in {409, 500}
        /\ req[q].body.email = req[r].body.email

====
